---- MODULE Spec2Model ----
(***************************************************************************)
(* Model of the fungible token contract of src/ft/src/lib.rs.              *)
(*                                                                         *)
(* One action is one top-level call of the contract.  A call that panics   *)
(* (assert!, env::panic, a failed checked operation) aborts as a whole:    *)
(* the host discards every storage write and every promise of the call,    *)
(* so the action leaves the ledger as it was and only records the outcome  *)
(* in `last`.                                                              *)
(*                                                                         *)
(* Balances are u128 in the contract.  TLC's integers are narrower, so the *)
(* largest balance is scaled down to U128_MAX; all arithmetic on balances  *)
(* is done against U128_MAX exactly as the code does it against 2^128 - 1  *)
(* (a sum that does not fit traps or wraps modulo U128_MAX + 1).  The      *)
(* host's price of a byte and the size of a storage record are scaled in   *)
(* the same way.                                                           *)
(***************************************************************************)
EXTENDS Integers, Sequences, FiniteSets, TLC

\* ------------------------------------------------------------------ bounds
\* the largest value of a balance (2^128 - 1 in the contract, scaled)
U128_MAX == 1023
\* env::storage_byte_cost(), scaled
StorageByteCost == 3
\* bytes of a storage record besides its key (the value and the host's
\* per-record overhead), scaled
RecordBytes == 2

\* the cap of one mint, lib.rs:94
MINT_CAP == 1000

AccountIds == {"alice", "bob", "carol"}

\* the accounts that call ft_mint
Callers == {"alice", "bob"}

\* length in bytes of an account id (the key of its entry in the map)
account_id_len == [a \in AccountIds |-> IF a = "bob" THEN 3 ELSE 5]

\* the arguments the calls are made with
Amounts == {0, 500, MINT_CAP, MINT_CAP + 1}
TransferAmounts == {0, 500, MINT_CAP}
InitialSupplies == {0, U128_MAX - 500}

None == -1

\* ------------------------------------------------------------------- state
VARIABLES
    state_exists,     \* env::state_exists(): the contract is initialised
    accounts,         \* token.accounts: LookupMap<AccountId, Balance>
    total_supply,     \* token.total_supply
    last              \* the last completed top-level call and its outcome

vars == <<state_exists, accounts, total_supply, last>>

\* ----------------------------------------------------------------- helpers
RECURSIVE SumOver(_, _)
SumOver(f, S) ==
    IF S = {} THEN 0
    ELSE LET x == CHOOSE y \in S : TRUE
         IN  f[x] + SumOver(f, S \ {x})

\* the sum of the balances of all accounts in the account map
SumBalances(accs) == SumOver(accs, DOMAIN accs)

\* bytes one entry of the account map takes: the record and the key
entry_bytes(id) == RecordBytes + account_id_len[id]

\* env::storage_usage(): the bytes the account map takes
storage_usage(accs) == SumOver([a \in DOMAIN accs |-> entry_bytes(a)], DOMAIN accs)

EmptyMap == [a \in {} |-> 0]

NoCall == [op |-> "none", ok |-> TRUE, err |-> "", predecessor |-> "",
           account |-> "", amount |-> 0, deposit |-> 0,
           pre_accounts |-> EmptyMap, pre_total_supply |-> 0,
           storage_used |-> 0, promises |-> <<>>, logs |-> <<>>]

Init ==
    /\ state_exists = FALSE
    /\ accounts = EmptyMap
    /\ total_supply = 0
    /\ last = NoCall

\* the result of running a method body: panic = "" when it returned, else
\* the message; accounts and total_supply are the values written when the
\* body returned or panicked
Outcome(panic, accs, supply, used, promises, logs) ==
    [panic |-> panic, accounts |-> accs, total_supply |-> supply,
     storage_used |-> used, promises |-> promises, logs |-> logs]

\* mutant: the writes of a call that panicked stay
call_result_committed(pre_accs, pre_supply, out) ==
    [accounts |-> out.accounts, total_supply |-> out.total_supply,
     promises |-> out.promises, logs |-> out.logs]

\* what a call leaves behind: a call that panicked is aborted as a whole,
\* its writes, promises and logs are discarded; a call that returned is
\* committed
call_result(pre_accs, pre_supply, out) ==
    IF out.panic # ""
    THEN [accounts |-> pre_accs, total_supply |-> pre_supply,
          promises |-> <<>>, logs |-> <<>>]
    ELSE [accounts |-> out.accounts, total_supply |-> out.total_supply,
          promises |-> out.promises, logs |-> out.logs]

\* mutant: an uninitialised contract runs on a default state
not_initialized_default(accs, supply) == Outcome("", accs, supply, 0, <<>>, <<>>)

\* deserialising the state of an uninitialised contract panics (PanicOnDefault)
not_initialized(accs, supply) ==
    Outcome("The contract is not initialized", accs, supply, 0, <<>>, <<>>)

CallRecord(op, out, res, predecessor, account, amount, deposit) ==
    [op |-> op, ok |-> out.panic = "", err |-> out.panic,
     predecessor |-> predecessor, account |-> account, amount |-> amount,
     deposit |-> deposit,
     pre_accounts |-> accounts, pre_total_supply |-> total_supply,
     storage_used |-> out.storage_used,
     promises |-> res.promises, logs |-> res.logs]

\* one completed top-level call: the ledger takes the call's result and
\* `last` records the call
Complete(op, out, predecessor, account, amount, deposit) ==
    LET res == call_result(accounts, total_supply, out)
    IN  /\ accounts' = res.accounts
        /\ total_supply' = res.total_supply
        /\ last' = CallRecord(op, out, res, predecessor, account, amount, deposit)

\* ---------------------------------------------------------------- ft_mint
\* mutant: the cap excludes the cap itself
assert_cap_strict(amount) == amount < MINT_CAP

\* assert!(amount.0 <= 1000, "Cannot mint more than 1000 tokens")
assert_cap(amount) == amount <= MINT_CAP

\* self.token.accounts.get(&receiver_id): None when the key is absent
accounts_get(accs, id) == IF id \in DOMAIN accs THEN accs[id] ELSE None

\* mutant: the stored balance is ignored
unwrap_or_default(v, default) == default

\* Option::unwrap_or
unwrap_or(v, default) == IF v = None THEN default ELSE v

\* amount_for_account += amount.0 on u128.  A sum that does not fit traps
\* (None) in a build with overflow checks and wraps in a build without:
\* the set of the results the build can produce
add_assign(a, b) ==
    IF a + b > U128_MAX
        THEN {None, (a + b) % (U128_MAX + 1)}
        ELSE {a + b}

\* mutant: the write prunes the other entries whose balance is 0
accounts_insert_pruning(accs, id, v) ==
    [a \in {b \in DOMAIN accs : accs[b] # 0} \cup {id} |->
        IF a = id THEN v ELSE accs[a]]

\* mutant: the write drops the other entries of the map
accounts_insert_only(accs, id, v) == [a \in {id} |-> v]

\* self.token.accounts.insert(&receiver_id, &amount_for_account)
accounts_insert(accs, id, v) ==
    [a \in DOMAIN accs \cup {id} |-> IF a = id THEN v ELSE accs[a]]

\* mutant: the sum wraps instead of failing
wrapping_add(a, b) == (a + b) % (U128_MAX + 1)

\* u128::checked_add: None when the sum does not fit
checked_add(a, b) == IF a + b > U128_MAX THEN None ELSE a + b

\* mutant: the operands of the subtraction are swapped
storage_used_reversed(usage_now, initial_storage_usage) == initial_storage_usage - usage_now

\* mutant: the usage before the call is not subtracted
storage_used_total(usage_now, initial_storage_usage) == usage_now

\* env::storage_usage() - initial_storage_usage
storage_used_of(usage_now, initial_storage_usage) == usage_now - initial_storage_usage

\* env::storage_byte_cost() * Balance::from(storage_used)
required_cost_of(storage_used) == StorageByteCost * storage_used

\* mutant: the deposit is not checked
assert_deposit_skipped(required_cost, attached_deposit) == TRUE

\* assert!(required_cost <= attached_deposit, "Must attach ...")
assert_deposit(required_cost, attached_deposit) == required_cost <= attached_deposit

\* mutant: the refund goes to the receiver of the mint
refund_promises_to_receiver(predecessor, receiver_id, refund) ==
    IF refund > 1 THEN <<[to |-> receiver_id, amount |-> refund]>> ELSE <<>>

\* if refund > 1 { Promise::new(env::predecessor_account_id()).transfer(refund) }
refund_promises(predecessor, receiver_id, refund) ==
    IF refund > 1 THEN <<[to |-> predecessor, amount |-> refund]>> ELSE <<>>

\* ft_mint from the write of the balance on, amount_for_account being the
\* sum the += produced
ft_mint_write(accs, supply, predecessor, receiver_id, amount, attached_deposit, amount_for_account) ==
    LET initial_storage_usage == storage_usage(accs)
        accs1 == accounts_insert(accs, receiver_id, amount_for_account)
        supply1 == checked_add(supply, amount)
    IN
    IF supply1 = None
    THEN Outcome("Total supply overflow", accs1, supply, 0, <<>>, <<>>)
    ELSE
    LET storage_used == storage_used_of(storage_usage(accs1), initial_storage_usage)
        required_cost == required_cost_of(storage_used)
    IN
    IF ~assert_deposit(required_cost, attached_deposit)
    THEN Outcome("Must attach yoctoNEAR to cover storage", accs1, supply1,
                 storage_used, <<>>, <<>>)
    ELSE
    LET refund == attached_deposit - required_cost
    IN  Outcome("", accs1, supply1, storage_used,
                refund_promises(predecessor, receiver_id, refund), <<>>)

\* mutant: only one account may mint
ft_mint_owner_only(accs, supply, predecessor, receiver_id, amount, attached_deposit) ==
    IF predecessor # "alice"
    THEN {Outcome("Only the owner can mint", accs, supply, 0, <<>>, <<>>)}
    ELSE IF ~assert_cap(amount)
    THEN {Outcome("Cannot mint more than 1000 tokens", accs, supply, 0, <<>>, <<>>)}
    ELSE
    { IF amount_for_account = None
      THEN Outcome("attempt to add with overflow", accs, supply, 0, <<>>, <<>>)
      ELSE ft_mint_write(accs, supply, predecessor, receiver_id, amount,
                         attached_deposit, amount_for_account)
      : amount_for_account \in
            add_assign(unwrap_or(accounts_get(accs, receiver_id), 0), amount) }

\* the body of Contract::ft_mint: the set of the outcomes it can have
ft_mint(accs, supply, predecessor, receiver_id, amount, attached_deposit) ==
    IF ~assert_cap(amount)
    THEN {Outcome("Cannot mint more than 1000 tokens", accs, supply, 0, <<>>, <<>>)}
    ELSE
    { IF amount_for_account = None
      THEN Outcome("attempt to add with overflow", accs, supply, 0, <<>>, <<>>)
      ELSE ft_mint_write(accs, supply, predecessor, receiver_id, amount,
                         attached_deposit, amount_for_account)
      : amount_for_account \in
            add_assign(unwrap_or(accounts_get(accs, receiver_id), 0), amount) }

\* the deposits attached to ft_mint: around the refund threshold and around
\* the price of a new entry
Deposits ==
    LET large == StorageByteCost * entry_bytes("alice")
    IN  {0, 1, 2, large, large + 2}

FtMint(predecessor, receiver_id, amount, attached_deposit) ==
    /\ \E out \in (IF state_exists
                   THEN ft_mint(accounts, total_supply, predecessor, receiver_id,
                                amount, attached_deposit)
                   ELSE {not_initialized(accounts, total_supply)}) :
          Complete("ft_mint", out, predecessor, receiver_id, amount, attached_deposit)
    /\ UNCHANGED state_exists

\* -------------------------------------------------------------------- new
\* mutant: registering an account that is in the map resets it
internal_register_account_reset(accs, supply, account_id) ==
    Outcome("", accounts_insert(accs, account_id, 0), supply,
            entry_bytes(account_id), <<>>, <<>>)

\* this.token.internal_register_account(owner_id): the account enters the
\* map with balance 0; registering an account that is in the map fails
internal_register_account(accs, supply, account_id) ==
    IF account_id \in DOMAIN accs
    THEN Outcome("AlreadyRegistered", accs, supply, 0, <<>>, <<>>)
    ELSE Outcome("", accounts_insert(accs, account_id, 0), supply,
                 entry_bytes(account_id), <<>>, <<>>)

\* mutant: the deposit does not reach the total supply
internal_deposit_balance_only(accs, supply, account_id, amount) ==
    IF account_id \notin DOMAIN accs
    THEN Outcome("AccountNotFound", accs, supply, 0, <<>>, <<>>)
    ELSE Outcome("", accounts_insert(accs, account_id, accs[account_id] + amount),
                 supply, 0, <<>>, <<>>)

\* this.token.internal_deposit(owner_id, total_supply): adds amount to the
\* balance of a registered account and to the total supply, both checked
internal_deposit(accs, supply, account_id, amount) ==
    IF account_id \notin DOMAIN accs
    THEN Outcome("AccountNotFound", accs, supply, 0, <<>>, <<>>)
    ELSE
    LET balance == checked_add(accs[account_id], amount)
        supply1 == checked_add(supply, amount)
    IN  IF balance = None
        THEN Outcome("BalanceOverflow", accs, supply, 0, <<>>, <<>>)
        ELSE IF supply1 = None
        THEN Outcome("SupplyOverflow", accounts_insert(accs, account_id, balance),
                     supply, 0, <<>>, <<>>)
        ELSE Outcome("", accounts_insert(accs, account_id, balance), supply1,
                     0, <<>>, <<>>)

\* the body of Contract::new after the state_exists assertion;
\* metadata_valid is what metadata.assert_valid() finds
new(owner_id, supply, metadata_valid) ==
    IF ~metadata_valid
    THEN Outcome("Invalid metadata", EmptyMap, 0, 0, <<>>, <<>>)
    ELSE
    LET registered == internal_register_account(EmptyMap, 0, owner_id)
    IN  IF registered.panic # ""
        THEN registered
        ELSE internal_deposit(registered.accounts, registered.total_supply,
                              owner_id, supply)

New(owner_id, supply, metadata_valid) ==
    LET out == IF state_exists
               THEN Outcome("Already initialized", accounts, total_supply, 0, <<>>, <<>>)
               ELSE new(owner_id, supply, metadata_valid)
    IN  /\ Complete("new", out, owner_id, owner_id, supply, 0)
        /\ state_exists' = (state_exists \/ out.panic = "")

\* ------------------------------------------------------------ ft_transfer
\* mutant: the balance of the sender is not checked
internal_withdraw_unchecked(accs, supply, account_id, amount) ==
    IF account_id \notin DOMAIN accs
    THEN Outcome("AccountNotFound", accs, supply, 0, <<>>, <<>>)
    ELSE Outcome("", accounts_insert(accs, account_id,
                                     IF accs[account_id] < amount
                                     THEN 0 ELSE accs[account_id] - amount),
                 IF supply < amount THEN 0 ELSE supply - amount, 0, <<>>, <<>>)

\* takes amount from the balance of a registered account and from the
\* total supply
internal_withdraw(accs, supply, account_id, amount) ==
    IF account_id \notin DOMAIN accs
    THEN Outcome("AccountNotFound", accs, supply, 0, <<>>, <<>>)
    ELSE IF accs[account_id] < amount
    THEN Outcome("InsufficientBalance", accs, supply, 0, <<>>, <<>>)
    ELSE IF supply < amount
    THEN Outcome("SupplyOverflow", accs, supply, 0, <<>>, <<>>)
    ELSE Outcome("", accounts_insert(accs, account_id, accs[account_id] - amount),
                 supply - amount, 0, <<>>, <<>>)

\* transfer(from, to, amount) of the standard's core, called by `from`
ft_transfer(accs, supply, sender_id, receiver_id, amount) ==
    IF sender_id = receiver_id \/ amount = 0
    THEN Outcome("ValidationError", accs, supply, 0, <<>>, <<>>)
    ELSE
    LET withdrawn == internal_withdraw(accs, supply, sender_id, amount)
    IN  IF withdrawn.panic # ""
        THEN withdrawn
        ELSE internal_deposit(withdrawn.accounts, withdrawn.total_supply,
                              receiver_id, amount)

\* the call is made with the one yoctoNEAR test_transfer attaches
FtTransfer(sender_id, receiver_id, amount) ==
    LET out == IF state_exists
               THEN ft_transfer(accounts, total_supply, sender_id, receiver_id, amount)
               ELSE not_initialized(accounts, total_supply)
    IN  /\ Complete("ft_transfer", out, sender_id, receiver_id, amount, 1)
        /\ UNCHANGED state_exists

\* -------------------------------------------------------- storage_deposit
\* register(account) of the standard's storage management; the call is made
\* with the price of the entry attached, as test_transfer does
StorageDeposit(predecessor, account_id) ==
    LET out == IF state_exists
               THEN internal_register_account(accounts, total_supply, account_id)
               ELSE not_initialized(accounts, total_supply)
    IN  /\ Complete("storage_deposit", out, predecessor, account_id, 0,
                    StorageByteCost * entry_bytes(account_id))
        /\ UNCHANGED state_exists

\* ----------------------------------------------------- storage_unregister
\* log!("Closed @{} with {}", account_id, balance)
on_account_closed(account_id, balance) ==
    <<[event |-> "Closed", account |-> account_id, amount |-> balance]>>

\* close(account) of the standard's storage management
close(accs, supply, account_id) ==
    IF account_id \notin DOMAIN accs
    THEN Outcome("AccountNotFound", accs, supply, 0, <<>>, <<>>)
    ELSE IF accs[account_id] # 0
    THEN Outcome("NonZeroBalance", accs, supply, 0, <<>>, <<>>)
    ELSE Outcome("", [a \in DOMAIN accs \ {account_id} |-> accs[a]], supply, 0,
                 <<>>, on_account_closed(account_id, accs[account_id]))

StorageUnregister(account_id) ==
    LET out == IF state_exists
               THEN close(accounts, total_supply, account_id)
               ELSE not_initialized(accounts, total_supply)
    IN  /\ Complete("storage_unregister", out, account_id, account_id, 0, 1)
        /\ UNCHANGED state_exists

\* ------------------------------------------------------------------- spec
Next ==
    \/ \E o \in AccountIds, s \in InitialSupplies, v \in BOOLEAN : New(o, s, v)
    \/ \E p \in Callers, r \in AccountIds, n \in Amounts, d \in Deposits :
          FtMint(p, r, n, d)
    \/ \E a \in AccountIds, b \in AccountIds, n \in TransferAmounts :
          FtTransfer(a, b, n)
    \/ \E a \in AccountIds : StorageDeposit(a, a)
    \/ \E a \in AccountIds : StorageUnregister(a)

Spec == Init /\ [][Next]_vars

TypeOK ==
    /\ state_exists \in BOOLEAN
    /\ DOMAIN accounts \subseteq AccountIds
    /\ \A a \in DOMAIN accounts : accounts[a] \in 0..U128_MAX
    /\ total_supply \in 0..U128_MAX

\* ----------------------------------------------------------------- claims
\* the balance of an account in a map, 0 for an account that is not in it
BalanceIn(accs, id) == IF id \in DOMAIN accs THEN accs[id] ELSE 0

\* the ledger is as it was before the last call
LedgerUnchanged ==
    /\ accounts = last.pre_accounts
    /\ total_supply = last.pre_total_supply

\* every account but `ids` is registered as before the last call, with the
\* balance it had
OthersUnchanged(ids) ==
    \A a \in AccountIds \ ids :
        /\ (a \in DOMAIN accounts) = (a \in DOMAIN last.pre_accounts)
        /\ BalanceIn(accounts, a) = BalanceIn(last.pre_accounts, a)

\* the bytes the entry of the receiver of the last call adds to the map
EntryDelta ==
    IF last.account \in DOMAIN last.pre_accounts THEN 0 ELSE entry_bytes(last.account)

CapMessage == "Cannot mint more than 1000 tokens"

\* C1: after every completed top-level call, successful or failed,
\* total_supply equals the sum of the balances of all accounts in the map.
C1_SupplyIsSumOfBalances == total_supply = SumBalances(accounts)

\* C1 witness: a failed mint on a ledger where two accounts hold tokens
C1_Witness ==
    /\ last.op = "ft_mint" /\ ~last.ok
    /\ Cardinality({a \in DOMAIN accounts : accounts[a] > 0}) >= 2
    /\ total_supply > 0

\* C2: a successful ft_mint(receiver, amount) adds exactly amount to the
\* receiver's balance (0 for a receiver that was absent, which it creates) and
\* to total_supply, and leaves every other account's balance and registration
\* unchanged.
C2_MintAddsAmount ==
    (last.op = "ft_mint" /\ last.ok) =>
        /\ last.account \in DOMAIN accounts
        /\ accounts[last.account] = BalanceIn(last.pre_accounts, last.account) + last.amount
        /\ total_supply = last.pre_total_supply + last.amount
        /\ OthersUnchanged({last.account})

\* C2 witness: a mint of the cap created its receiver beside the accounts
\* that were registered
C2_Witness ==
    /\ last.op = "ft_mint" /\ last.ok
    /\ last.amount = MINT_CAP
    /\ last.account \notin DOMAIN last.pre_accounts
    /\ Cardinality(DOMAIN last.pre_accounts) >= 2

\* C3: ft_mint with amount above the cap fails, leaves the ledger as it was
\* and schedules no refund, whatever the receiver and the deposit; on an
\* initialised contract the failure is the cap violation; an amount equal to
\* the cap is not rejected by the cap.
C3_MintAboveCapFails ==
    /\ (last.op = "ft_mint" /\ last.amount > MINT_CAP) =>
            /\ ~last.ok
            /\ LedgerUnchanged
            /\ last.promises = <<>>
            /\ (state_exists => last.err = CapMessage)
    /\ (last.op = "ft_mint" /\ last.amount = MINT_CAP) => last.err # CapMessage

\* C3 witness: a mint above the cap with a deposit that would have paid for
\* the new entry
C3_Witness ==
    /\ last.op = "ft_mint" /\ last.amount > MINT_CAP
    /\ last.err = CapMessage
    /\ last.account \notin DOMAIN last.pre_accounts
    /\ last.deposit > StorageByteCost * entry_bytes(last.account)

\* C4: a mint with amount 0 is rejected before any state is touched: it fails,
\* never adds an unregistered receiver to the map and never changes
\* total_supply.
C4_ZeroMintRejected ==
    (last.op = "ft_mint" /\ last.amount = 0) => (~last.ok /\ LedgerUnchanged)

\* C5: an ft_mint whose deposit is less than the price of the bytes the
\* mutation adds fails, and the receiver's balance, the account map and
\* total_supply are as before the call.
C5_PaymentAtomicity ==
    (last.op = "ft_mint" /\ last.deposit < StorageByteCost * EntryDelta) =>
        (~last.ok /\ LedgerUnchanged /\ last.promises = <<>>)

\* C5 witness: a mint that passed every check but the deposit's
C5_Witness ==
    /\ last.op = "ft_mint"
    /\ last.err = "Must attach yoctoNEAR to cover storage"
    /\ last.account \notin DOMAIN last.pre_accounts
    /\ last.amount > 0

\* C6: a successful ft_mint with storage delta d, byte cost c and deposit e
\* has e >= d*c and schedules exactly one transfer of e - d*c to the
\* predecessor when e - d*c > 1 and none when e - d*c <= 1; no transfer
\* exceeds e.
C6_RefundCorrect ==
    (last.op = "ft_mint" /\ last.ok) =>
        LET refund == last.deposit - StorageByteCost * EntryDelta
        IN  /\ refund >= 0
            /\ (refund > 1) =>
                  last.promises = <<[to |-> last.predecessor, amount |-> refund]>>
            /\ (refund <= 1) => last.promises = <<>>
            /\ \A i \in DOMAIN last.promises : last.promises[i].amount <= last.deposit

\* C6 witness: a mint that paid for a new entry and refunds the rest to a
\* predecessor that is not the receiver
C6_Witness ==
    /\ last.op = "ft_mint" /\ last.ok
    /\ EntryDelta > 0
    /\ last.predecessor # last.account
    /\ Len(last.promises) = 1
    /\ last.promises[1].amount < last.deposit

\* C7: no balance and no total_supply exceeds U128_MAX, and an ft_mint whose
\* amount does not fit on top of total_supply or of the receiver's balance
\* fails and leaves the ledger as it was; a mint that succeeds has not wrapped.
C7_NoOverflow ==
    /\ total_supply \in 0..U128_MAX
    /\ \A a \in DOMAIN accounts : accounts[a] \in 0..U128_MAX
    /\ (/\ last.op = "ft_mint"
        /\ \/ last.pre_total_supply + last.amount > U128_MAX
           \/ BalanceIn(last.pre_accounts, last.account) + last.amount > U128_MAX) =>
            (~last.ok /\ LedgerUnchanged)
    /\ (last.op = "ft_mint" /\ last.ok) =>
            /\ total_supply >= last.pre_total_supply
            /\ accounts[last.account] >= BalanceIn(last.pre_accounts, last.account)

\* C7 witness: a mint within the cap failed on the supply check, after the
\* balance was written
C7_Witness ==
    /\ last.op = "ft_mint"
    /\ last.err = "Total supply overflow"
    /\ last.amount <= MINT_CAP
    /\ last.pre_total_supply + last.amount > U128_MAX

\* what C8 says of one call, `call` being its record: a mint within the cap
\* and within the supply's range to a receiver that is in the map measures
\* no storage, succeeds whatever the deposit, and refunds the whole deposit
\* when it is above 1
RegisteredMintIsFree(call) ==
    (/\ call.op = "ft_mint"
     /\ call.account \in DOMAIN call.pre_accounts
     /\ call.amount <= MINT_CAP
     /\ call.pre_total_supply + call.amount <= U128_MAX) =>
        /\ call.ok
        /\ call.storage_used = 0
        /\ call.promises = (IF call.deposit > 1
                            THEN <<[to |-> call.predecessor, amount |-> call.deposit]>>
                            ELSE <<>>)

\* C8: storage for an account is charged at most once: on an initialised
\* contract an ft_mint to a receiver that is already in the map measures
\* storage delta 0, succeeds with any deposit, and refunds the whole deposit
\* (when above 1); two successive mints of 500 and 500 to the same account
\* leave its balance 1000 above what it was, the second one charging nothing.
C8_StorageChargedOnce ==
    [][ /\ state_exists' => RegisteredMintIsFree(last')
        /\ (/\ last.op = "ft_mint" /\ last.ok /\ last.amount = 500
            /\ last'.op = "ft_mint" /\ last'.ok /\ last'.amount = 500
            /\ last'.account = last.account) =>
                /\ accounts'[last.account] =
                       BalanceIn(last.pre_accounts, last.account) + 1000
                /\ last'.storage_used = 0
                /\ \A i \in DOMAIN last'.promises :
                       last'.promises[i].amount = last'.deposit ]_vars

\* C8 witness: the second of two mints of 500 to an account, made with no
\* deposit, brought its balance to 1000
C8_Witness ==
    /\ last.op = "ft_mint" /\ last.ok
    /\ last.amount = 500 /\ last.deposit = 0
    /\ last.account \in DOMAIN last.pre_accounts
    /\ last.pre_accounts[last.account] = 500
    /\ accounts[last.account] = 1000

\* C9: a successful ft_mint(receiver, amount) emits exactly one
\* Minted{account = receiver, amount} notification, a failed one none.
C9_MintedEmitted ==
    (last.op = "ft_mint") =>
        last.logs = (IF last.ok
                     THEN <<[event |-> "Minted", account |-> last.account,
                             amount |-> last.amount]>>
                     ELSE <<>>)

\* C10: a successful transfer between two distinct registered accounts takes
\* exactly amount from the sender's balance, adds exactly amount to the
\* receiver's, and leaves total_supply and every other account unchanged.
C10_TransferConserves ==
    (last.op = "ft_transfer" /\ last.ok) =>
        LET from == last.predecessor
            to == last.account
        IN  /\ from # to
            /\ {from, to} \subseteq DOMAIN last.pre_accounts
            /\ DOMAIN accounts = DOMAIN last.pre_accounts
            /\ accounts[from] = last.pre_accounts[from] - last.amount
            /\ accounts[to] = last.pre_accounts[to] + last.amount
            /\ total_supply = last.pre_total_supply
            /\ OthersUnchanged({from, to})

\* C10 witness: a transfer moved tokens while a third account held some
C10_Witness ==
    /\ last.op = "ft_transfer" /\ last.ok
    /\ last.amount > 0
    /\ \E a \in DOMAIN accounts \ {last.predecessor, last.account} : accounts[a] > 0

\* C11: a transfer of more than the sender's balance fails and leaves both
\* balances and total_supply unchanged; between two distinct accounts the
\* failure is InsufficientBalance.
C11_InsufficientBalanceFails ==
    (/\ last.op = "ft_transfer"
     /\ last.predecessor \in DOMAIN last.pre_accounts
     /\ last.amount > last.pre_accounts[last.predecessor]) =>
        /\ ~last.ok
        /\ LedgerUnchanged
        /\ (last.predecessor # last.account) => last.err = "InsufficientBalance"

\* C11 witness: a funded sender tried to send more than it holds to a
\* registered receiver
C11_Witness ==
    /\ last.op = "ft_transfer"
    /\ last.err = "InsufficientBalance"
    /\ last.account \in DOMAIN last.pre_accounts
    /\ last.pre_accounts[last.predecessor] > 0
    /\ accounts[last.predecessor] = last.pre_accounts[last.predecessor]

\* C12: new on an uninitialised contract, when it succeeds, leaves a ledger
\* whose only account is the owner with balance total_supply and whose
\* total_supply is the argument; new fails with "Already initialized" once
\* the state exists; every other call on an uninitialised contract fails with
\* "The contract is not initialized" and changes nothing.
C12_Initialization ==
    [][ /\ (last'.op = "new" /\ state_exists) =>
              /\ ~last'.ok
              /\ last'.err = "Already initialized"
              /\ UNCHANGED <<state_exists, accounts, total_supply>>
        /\ (last'.op = "new" /\ ~state_exists /\ last'.ok) =>
              /\ state_exists'
              /\ DOMAIN accounts' = {last'.account}
              /\ accounts'[last'.account] = last'.amount
              /\ total_supply' = last'.amount
        /\ (last'.op = "new" /\ ~state_exists /\ ~last'.ok) =>
              UNCHANGED <<state_exists, accounts, total_supply>>
        /\ (last'.op # "new" /\ ~state_exists) =>
              /\ ~last'.ok
              /\ last'.err = "The contract is not initialized"
              /\ UNCHANGED <<state_exists, accounts, total_supply>> ]_vars

\* C12 witness: a second new was refused on a ledger the first one funded
C12_Witness ==
    /\ last.op = "new" /\ ~last.ok
    /\ last.err = "Already initialized"
    /\ state_exists
    /\ total_supply > 0

C14_RegisterTwiceFails ==
    (last.op = "storage_deposit" /\ last.account \in DOMAIN last.pre_accounts) =>
        /\ ~last.ok
        /\ last.err = "AlreadyRegistered"
        /\ LedgerUnchanged

\* C14 witness: the register of an account that holds tokens was refused
C14_Witness ==
    /\ last.op = "storage_deposit"
    /\ last.err = "AlreadyRegistered"
    /\ last.account \in DOMAIN accounts
    /\ accounts[last.account] > 0

DepositMessage == "Must attach yoctoNEAR to cover storage"

\* the cap check, the supply-overflow check and the deposit check of the
\* last call, as the claims state them
MintChecksPass ==
    /\ last.amount <= MINT_CAP
    /\ last.pre_total_supply + last.amount <= U128_MAX
    /\ last.deposit >= StorageByteCost * EntryDelta

\* C15: ft_mint schedules its refund only when the cap check, the ledger
\* mutation, the supply-overflow check and the deposit check have all passed:
\* on an initialised contract the call succeeds exactly when they pass, a
\* refund is scheduled only by such a call, and a call that fails schedules
\* no refund and leaves the ledger as it was.
C15_SettlementOrdering ==
    (last.op = "ft_mint") =>
        /\ state_exists => (last.ok <=> MintChecksPass)
        /\ (last.promises # <<>>) => (last.ok /\ MintChecksPass)
        /\ ~last.ok => (last.promises = <<>> /\ last.logs = <<>> /\ LedgerUnchanged)

\* C15 witness: a mint with a refundable deposit attached failed at the
\* deposit check, after the ledger was written
C15_Witness ==
    /\ last.op = "ft_mint" /\ ~last.ok
    /\ last.err = DepositMessage
    /\ last.deposit > 1
    /\ last.promises = <<>>

\* what a mint leaves behind apart from the destination of its refund
MintEffect(accs, supply, out) ==
    LET res == call_result(accs, supply, out)
    IN  [panic |-> out.panic, accounts |-> res.accounts,
         total_supply |-> res.total_supply,
         refunds |-> [i \in DOMAIN res.promises |-> res.promises[i].amount]]

\* C16: from one ledger state, two ft_mint calls with the same receiver,
\* amount and deposit but different predecessors succeed or fail alike and
\* leave the same balances, account map and total_supply; the predecessor
\* only names the destination of the refund.
C16_NoCallerRestriction ==
    state_exists =>
        \A r \in AccountIds, n \in Amounts, d \in Deposits :
            LET p1 == CHOOSE p \in Callers : TRUE
                outs1 == ft_mint(accounts, total_supply, p1, r, n, d)
                effects1 == {MintEffect(accounts, total_supply, o) : o \in outs1}
            IN  \A p2 \in Callers :
                    LET outs2 == ft_mint(accounts, total_supply, p2, r, n, d)
                    IN  /\ {MintEffect(accounts, total_supply, o) : o \in outs2} = effects1
                        /\ \A o \in outs2 :
                              \A i \in DOMAIN o.promises : o.promises[i].to = p2

\* C16 witness: a mint succeeded with a refund, and the same call by another
\* predecessor leaves the same ledger with the refund sent elsewhere
C16_Witness ==
    /\ last.op = "ft_mint" /\ last.ok
    /\ last.promises # <<>>
    /\ \E p \in Callers \ {last.predecessor} :
          \E o \in ft_mint(last.pre_accounts, last.pre_total_supply, p,
                           last.account, last.amount, last.deposit) :
              /\ o.panic = ""
              /\ o.accounts = accounts
              /\ o.total_supply = total_supply
              /\ o.promises # last.promises

\* C17: in ft_mint the storage usage after the write of the balance is never
\* below the usage captured before it, so the subtraction does not underflow,
\* and the delta it measures is 0 for a receiver that was in the map and the
\* size of the receiver's entry for one that was not.
C17_StorageDeltaNeverNegative ==
    (last.op = "ft_mint") =>
        LET before == storage_usage(last.pre_accounts)
            after == storage_usage(accounts_insert(last.pre_accounts, last.account, 0))
        IN  /\ after >= before
            /\ last.storage_used >= 0
            /\ last.storage_used \in {0, entry_bytes(last.account)}
            /\ (last.ok \/ last.err = DepositMessage) =>
                  /\ last.storage_used = after - before
                  /\ (last.storage_used = 0) = (last.account \in DOMAIN last.pre_accounts)

\* C17 witness: a mint measured the entry of a receiver it created beside
\* the entries that were in the map
C17_Witness ==
    /\ last.op = "ft_mint" /\ last.ok
    /\ last.pre_accounts # EmptyMap
    /\ last.account \notin DOMAIN last.pre_accounts
    /\ last.storage_used = entry_bytes(last.account)
    /\ last.storage_used > 0

====
